---- MODULE Spec2Model ----
(***************************************************************************)
(* A model of the society/civilization optimizer:                          *)
(*   Civilization.h  - the Civilization class (clustering, ranking,        *)
(*                     leader selection, information acquisition)          *)
(*   Individual.h    - one agent                                           *)
(*   main.cpp        - the driver's time loop (problem4_1)                 *)
(*                                                                         *)
(* Numbers.  The program works on doubles.  The model works on a grid:     *)
(* coordinates are integers, a distance is the square root rounded to the  *)
(* nearest 1/DistScale, and a draw of the generator is one of the RngRes   *)
(* values k/RngRes of [0,1).  Arithmetic rounds to the nearest grid point, *)
(* as double arithmetic rounds to the nearest double.  Indices are the     *)
(* program's (0-based); a C++ vector v is a sequence with v[i] = v[i+1].   *)
(***************************************************************************)
EXTENDS Integers, Sequences, FiniteSets, TLC

VARIABLES
    civ,    \* one run of the driver: a Civilization object and the driver's position
    twin,   \* two further runs built from the same arguments and seed
    acq     \* one call of acquire_information on arbitrary arguments, or the
            \* draws the last migration step read

vars == <<civ, twin, acq>>

----------------------------------------------------------------------------
(* Bounds of the model *)

MaxPop == 3

MaxCoord == 2

RngRes == 4

DistScale == 10

MaxT == 2

(* n of problem4_1 *)
NumVars == 2

Vars == 1..NumVars

Canon == 0..(RngRes - 1)

----------------------------------------------------------------------------
(* Arithmetic *)

\* x / y rounded to the nearest integer (y > 0)
RoundDiv(x, y) == (2 * x + y) \div (2 * y)

MaxSumSq == NumVars * (MaxCoord + 2) * (MaxCoord + 2)

\* std::sqrt of calculate_distance, in units of 1/DistScale, rounded to nearest
SqrtTable[s \in 0..MaxSumSq] ==
    CHOOSE r \in 0..((MaxCoord + 2) * NumVars * DistScale) :
        /\ 4 * s * DistScale * DistScale < (2 * r + 1) * (2 * r + 1)
        /\ (r = 0 \/ (2 * r - 1) * (2 * r - 1) <= 4 * s * DistScale * DistScale)

Min2(a, b) == IF a <= b THEN a ELSE b

Max2(a, b) == IF a >= b THEN a ELSE b

RECURSIVE SumSeq(_)
SumSeq(s) == IF s = <<>> THEN 0 ELSE Head(s) + SumSeq(Tail(s))

\* the elements of a vector
Elems(s) == {s[k] : k \in 1..Len(s)}

----------------------------------------------------------------------------
(* The generator.  c.rng is the part of the stream the next operation will *)
(* read; every draw takes its head.                                        *)

\* std::uniform_real_distribution<double>(a, b)(rng), from the canonical draw k/RngRes
UniformReal(a, b, k) == a + RoundDiv(k * (b - a), RngRes)

\* std::uniform_int_distribution<int>(a, b)(rng), from the canonical draw k/RngRes
UniformInt(a, b, k) == a + (k * (b - a + 1)) \div RngRes

----------------------------------------------------------------------------
(* Individual.h *)

Individual(num_variables) ==
    [variables |-> [j \in 1..num_variables |-> 0],
     constraint_violations |-> <<>>,
     objective_value |-> 0,
     rank |-> 0]

----------------------------------------------------------------------------
(* The injected functions.  Problem 1 has the shape of TwoVariableDesign   *)
(* (Koziel_and_Michalewicz.h: a cubic objective, two constraints g >= 0    *)
(* whose violation is 0 when satisfied and the magnitude otherwise),       *)
(* scaled to the grid; problem 2 is unconstrained with a linear objective. *)

Problems == {1, 2}

Cube(x) == x * x * x

Violation(g) == IF g >= 0 THEN 0 ELSE -g

ObjectiveFn(problem, ind) ==
    IF problem = 1
    THEN Cube(ind.variables[1] - 2) + Cube(ind.variables[2] - 2)
    ELSE ind.variables[1] + ind.variables[2]

\* g1 = x1 - 2 >= 0,  g2 = x2 - 1 >= 0
ConstraintFn(problem, ind) ==
    IF problem = 1
    THEN <<Violation(ind.variables[1] - 2), Violation(ind.variables[2] - 1)>>
    ELSE <<0, 0>>

----------------------------------------------------------------------------
(* Civilization.h *)

\* Civilization::Civilization, and the driver before initialize()
Civilization(pop_size, lb, ub, problem) ==
    [m_pop_size |-> pop_size,
     lower_bounds |-> lb,
     upper_bounds |-> ub,
     problem |-> problem,
     population |-> <<>>,
     hubs |-> <<>>,
     assignments |-> <<>>,
     society_leaders |-> <<>>,
     global_society |-> <<>>,
     super_leaders |-> <<>>,
     evaluations |-> 0,
     rng |-> <<>>,
     pc |-> "initialize",
     idx |-> 0,
     t |-> 0]

\* one draw: the head of the stream
Draw(c) == Head(c.rng)

Drawn(c) == [c EXCEPT !.rng = Tail(c.rng)]

\* Initialize with a slip: r_val * (ub - lb), the lower bound not added
InitializeFromZero(c) ==
    IF c.idx >= c.m_pop_size THEN [c EXCEPT !.pc = "cluster_population", !.idx = 0]
    ELSE
    LET ind == [Individual(NumVars) EXCEPT !.variables =
                   [j \in 1..NumVars |->
                       RoundDiv(c.rng[j] * (c.upper_bounds[j] - c.lower_bounds[j]),
                                RngRes)]]
    IN  [c EXCEPT !.population = Append(IF c.idx = 0 THEN <<>> ELSE c.population, ind),
                  !.rng = SubSeq(c.rng, NumVars + 1, Len(c.rng)),
                  !.idx = c.idx + 1]

\* initialize(): one step of the loop over i = c.idx, n draws for individual i
\* (population.clear() leaves the population empty before the first one)
Initialize(c) ==
    IF c.idx >= c.m_pop_size THEN [c EXCEPT !.pc = "cluster_population", !.idx = 0]
    ELSE
    LET ind == [Individual(NumVars) EXCEPT !.variables =
                   [j \in 1..NumVars |->
                       c.lower_bounds[j]
                       + RoundDiv(c.rng[j] * (c.upper_bounds[j] - c.lower_bounds[j]),
                                  RngRes)]]
    IN  [c EXCEPT !.population = Append(IF c.idx = 0 THEN <<>> ELSE c.population, ind),
                  !.rng = SubSeq(c.rng, NumVars + 1, Len(c.rng)),
                  !.idx = c.idx + 1]

RECURSIVE SumSq(_, _, _)
SumSq(a, b, j) ==
    IF j = 0 THEN 0
    ELSE (a[j] - b[j]) * (a[j] - b[j]) + SumSq(a, b, j - 1)

\* calculate_distance(a, b)
calculate_distance(a, b) == SqrtTable[SumSq(a.variables, b.variables, NumVars)]

\* ScanMax with a slip: d >= max, the last of several farthest wins
RECURSIVE ScanMaxLast(_, _, _, _)
ScanMaxLast(ds, i, best, arg) ==
    IF i > Len(ds) THEN arg
    ELSE IF ds[i] >= best THEN ScanMaxLast(ds, i + 1, ds[i], i - 1)
         ELSE ScanMaxLast(ds, i + 1, best, arg)

\* the scan  if (d > max) { max = d; arg = i; }  over the vector ds, from (best, arg)
RECURSIVE ScanMax(_, _, _, _)
ScanMax(ds, i, best, arg) ==
    IF i > Len(ds) THEN arg
    ELSE IF ds[i] > best THEN ScanMax(ds, i + 1, ds[i], i - 1)
         ELSE ScanMax(ds, i + 1, best, arg)

\* the distance of individual i to the hub of its society
HubDistance(c, i) ==
    calculate_distance(c.population[i + 1],
                       c.population[c.hubs[c.assignments[i + 1] + 1] + 1])

\* ClusterStart with a slip: the societies of the first assignment are
\* exchanged  (d1 <= d2) ? 1 : 0
ClusterStartExchanged(c) ==
    IF c.population = <<>> THEN [c EXCEPT !.pc = "identify_leaders"]
    ELSE
    LET m == c.m_pop_size
        first == UniformInt(0, m - 1, Draw(c))
        second_hub ==
            ScanMax([i \in 1..m |->
                        calculate_distance(c.population[i], c.population[first + 1])],
                    1, -1, -1)
        hubs == <<first, second_hub>>
        assignments ==
            [i \in 1..m |->
                LET d1 == calculate_distance(c.population[i], c.population[hubs[1] + 1])
                    d2 == calculate_distance(c.population[i], c.population[hubs[2] + 1])
                IN  IF d1 <= d2 THEN 1 ELSE 0]
    IN  [Drawn(c) EXCEPT !.hubs = hubs, !.assignments = assignments,
                         !.pc = "cluster_loop"]

\* ClusterStart with a slip: no second hub when nobody is away from the first
ClusterStartOneHub(c) ==
    LET m == c.m_pop_size
        first == UniformInt(0, m - 1, Draw(c))
        ds == [i \in 1..m |->
                  calculate_distance(c.population[i], c.population[first + 1])]
        second_hub == ScanMax(ds, 1, 0, -1)
        hubs == IF second_hub = -1 THEN <<first>> ELSE <<first, second_hub>>
        assignments ==
            [i \in 1..m |->
                IF second_hub = -1 THEN 0
                ELSE IF ds[i] <= calculate_distance(c.population[i],
                                                    c.population[second_hub + 1])
                     THEN 0 ELSE 1]
    IN  [Drawn(c) EXCEPT !.hubs = hubs, !.assignments = assignments,
                         !.pc = "cluster_loop"]

\* ClusterStart with a slip: the tie of the first assignment goes to the
\* second hub  (d1 < d2) ? 0 : 1
ClusterStartTieToSecond(c) ==
    IF c.population = <<>> THEN [c EXCEPT !.pc = "identify_leaders"]
    ELSE
    LET m == c.m_pop_size
        first == UniformInt(0, m - 1, Draw(c))
        second_hub ==
            ScanMax([i \in 1..m |->
                        calculate_distance(c.population[i], c.population[first + 1])],
                    1, -1, -1)
        hubs == <<first, second_hub>>
        assignments ==
            [i \in 1..m |->
                LET d1 == calculate_distance(c.population[i], c.population[hubs[1] + 1])
                    d2 == calculate_distance(c.population[i], c.population[hubs[2] + 1])
                IN  IF d1 < d2 THEN 0 ELSE 1]
    IN  [Drawn(c) EXCEPT !.hubs = hubs, !.assignments = assignments,
                         !.pc = "cluster_loop"]

\* cluster_population, up to the clustering loop (lines 93-115)
ClusterStart(c) ==
    IF c.population = <<>> THEN [c EXCEPT !.pc = "identify_leaders"]
    ELSE
    LET m == c.m_pop_size
        first == UniformInt(0, m - 1, Draw(c))
        second_hub ==
            ScanMax([i \in 1..m |->
                        calculate_distance(c.population[i], c.population[first + 1])],
                    1, -1, -1)
        hubs == <<first, second_hub>>
        assignments ==
            [i \in 1..m |->
                LET d1 == calculate_distance(c.population[i], c.population[hubs[1] + 1])
                    d2 == calculate_distance(c.population[i], c.population[hubs[2] + 1])
                IN  IF d1 <= d2 THEN 0 ELSE 1]
    IN  [Drawn(c) EXCEPT !.hubs = hubs, !.assignments = assignments,
                         !.pc = "cluster_loop"]

\* total_dist and pairs of the clustering loop (lines 119-126)
HubPairs(c) == {p \in (1..Len(c.hubs)) \X (1..Len(c.hubs)) : p[1] < p[2]}

RECURSIVE SumPairs(_, _)
SumPairs(c, ps) ==
    IF ps = {} THEN 0
    ELSE LET p == CHOOSE q \in ps : TRUE
         IN  calculate_distance(c.population[c.hubs[p[1]] + 1],
                                c.population[c.hubs[p[2]] + 1])
             + SumPairs(c, ps \ {p})

total_dist(c) == SumPairs(c, HubPairs(c))

pairs(c) == Cardinality(HubPairs(c))

\* d <= D, where D = (pairs > 0) ? (total_dist / pairs) / 2.0 : 0.0
WithinD(c, d) ==
    IF pairs(c) > 0 THEN 2 * pairs(c) * d <= total_dist(c) ELSE d <= 0

\* farthest_idx of the clustering loop (lines 129-135)
farthest_idx(c) ==
    ScanMax([i \in 1..c.m_pop_size |-> HubDistance(c, i - 1)], 1, -1, -1)

\* max_d of the clustering loop
max_d(c) == IF farthest_idx(c) = -1 THEN -1 ELSE HubDistance(c, farthest_idx(c))

\* Converged with a slip: D is the average hub distance, not half of it
ConvergedAtAverage(c) ==
    IF pairs(c) > 0 THEN pairs(c) * max_d(c) <= total_dist(c) ELSE max_d(c) <= 0

\* Converged with a slip: max_d < D
ConvergedStrictly(c) ==
    IF pairs(c) > 0 THEN 2 * pairs(c) * max_d(c) < total_dist(c) ELSE max_d(c) < 0

\* the stop condition (line 137)
Converged(c) == WithinD(c, max_d(c))

\* Promote with a slip: the reassignment scan also moves an individual that is
\* as near to its current hub as to the new one (d_new <= d_curr)
PromoteTieToNewest(c) ==
    LET f == farthest_idx(c)
        new_hub_id == Len(c.hubs)
    IN  [c EXCEPT !.hubs = Append(c.hubs, f),
                  !.assignments =
                      [i \in 1..c.m_pop_size |->
                          LET d_curr == HubDistance(c, i - 1)
                              d_new == calculate_distance(c.population[i],
                                                          c.population[f + 1])
                          IN  IF d_new <= d_curr THEN new_hub_id
                              ELSE c.assignments[i]]]

\* Promote with a slip: the new hub overwrites the newest hub instead of being
\* appended (hubs.back() = farthest_idx)
PromoteOverLast(c) ==
    LET f == farthest_idx(c)
        new_hub_id == Len(c.hubs) - 1
    IN  [c EXCEPT !.hubs[Len(c.hubs)] = f,
                  !.assignments =
                      [i \in 1..c.m_pop_size |->
                          LET d_curr == HubDistance(c, i - 1)
                              d_new == calculate_distance(c.population[i],
                                                          c.population[f + 1])
                          IN  IF d_new < d_curr THEN new_hub_id
                              ELSE c.assignments[i]]]

\* Promote with a slip: the reassignment scan compares the wrong way round
\* (d_new > d_curr)
PromoteReassigningFarther(c) ==
    LET f == farthest_idx(c)
        new_hub_id == Len(c.hubs)
    IN  [c EXCEPT !.hubs = Append(c.hubs, f),
                  !.assignments =
                      [i \in 1..c.m_pop_size |->
                          LET d_curr == HubDistance(c, i - 1)
                              d_new == calculate_distance(c.population[i],
                                                          c.population[f + 1])
                          IN  IF d_new > d_curr THEN new_hub_id
                              ELSE c.assignments[i]]]

\* the promotion of a hub and the reassignment scan (lines 139-147)
Promote(c) ==
    LET f == farthest_idx(c)
        new_hub_id == Len(c.hubs)
    IN  [c EXCEPT !.hubs = Append(c.hubs, f),
                  !.assignments =
                      [i \in 1..c.m_pop_size |->
                          LET d_curr == HubDistance(c, i - 1)
                              d_new == calculate_distance(c.population[i],
                                                          c.population[f + 1])
                          IN  IF d_new < d_curr THEN new_hub_id
                              ELSE c.assignments[i]]]

\* one pass of the clustering loop (lines 118-148)
ClusterLoop(c) ==
    IF Converged(c) THEN [c EXCEPT !.pc = "identify_leaders"]
    ELSE Promote(c)

\* evaluate_population(): every individual, through the injected functions;
\* get_objective counts its calls in TwoVariableDesign::evaluations
evaluate_population(c) ==
    [c EXCEPT !.population =
                  [i \in 1..Len(c.population) |->
                      [c.population[i] EXCEPT
                          !.objective_value = ObjectiveFn(c.problem, c.population[i]),
                          !.constraint_violations =
                              ConstraintFn(c.problem, c.population[i])]],
              !.evaluations = c.evaluations + Len(c.population)]

\* dominates(a, b)
dominates(a, b) ==
    LET ks == 1..Len(a.constraint_violations)
        no_worse == \A k \in ks : ~(a.constraint_violations[k] > b.constraint_violations[k])
        strictly_better == \E k \in ks : a.constraint_violations[k] < b.constraint_violations[k]
    IN  no_worse /\ strictly_better

\* IsDominated with a slip: the arguments of dominates swapped
IsDominatedSwapped(pop, current_pool, i) ==
    \E k \in 1..Len(current_pool) :
        /\ current_pool[k] # i
        /\ dominates(pop[i + 1], pop[current_pool[k] + 1])

\* is_dominated of rank_society: some other member of the pool dominates i
IsDominated(pop, current_pool, i) ==
    \E k \in 1..Len(current_pool) :
        /\ current_pool[k] # i
        /\ dominates(pop[current_pool[k] + 1], pop[i + 1])

\* rank_society with a slip: no current_rank++ at the end of a round
RECURSIVE rank_society_flat(_, _, _)
rank_society_flat(pop, current_pool, current_rank) ==
    IF current_pool = <<>> THEN pop
    ELSE
    LET Dominated(i) == IsDominated(pop, current_pool, i)
        next_pool == SelectSeq(current_pool, Dominated)
        ranked == [k \in 1..Len(pop) |->
                     IF (k - 1) \in Elems(current_pool) /\ ~Dominated(k - 1)
                     THEN [pop[k] EXCEPT !.rank = current_rank]
                     ELSE pop[k]]
    IN  rank_society_flat(ranked, next_pool, current_rank)

\* rank_society(members): the while loop, from current_pool and current_rank
RECURSIVE rank_society(_, _, _)
rank_society(pop, current_pool, current_rank) ==
    IF current_pool = <<>> THEN pop
    ELSE
    LET Dominated(i) == IsDominated(pop, current_pool, i)
        next_pool == SelectSeq(current_pool, Dominated)
        ranked == [k \in 1..Len(pop) |->
                     IF (k - 1) \in Elems(current_pool) /\ ~Dominated(k - 1)
                     THEN [pop[k] EXCEPT !.rank = current_rank]
                     ELSE pop[k]]
    IN  rank_society(ranked, next_pool, current_rank + 1)

\* Members with a slip: assignments[i] <= s, a society also takes the members
\* of the societies before it
MembersUpTo(c, s) ==
    LET InS(i) == c.assignments[i + 1] <= s
    IN  SelectSeq([i \in 1..c.m_pop_size |-> i - 1], InS)

\* the members of society s, in index order (lines 203-205)
Members(c, s) ==
    LET InS(i) == c.assignments[i + 1] = s
    IN  SelectSeq([i \in 1..c.m_pop_size |-> i - 1], InS)

\* SelectLeaders with a slip: no fallback when the filter keeps nobody
SelectLeadersNoFallback(pop, members) ==
    LET IsRank1(i) == pop[i + 1].rank = 1
        rank1 == SelectSeq(members, IsRank1)
        sum_obj == SumSeq([k \in 1..Len(members) |-> pop[members[k] + 1].objective_value])
        filter == 2 * Len(rank1) > Len(members)
        BelowAvg(i) == pop[i + 1].objective_value * Len(members) <= sum_obj
    IN  IF ~filter THEN rank1 ELSE SelectSeq(rank1, BelowAvg)

\* SelectLeaders with a slip: objective_value < avg_obj
SelectLeadersStrictlyBelow(pop, members) ==
    LET IsRank1(i) == pop[i + 1].rank = 1
        rank1 == SelectSeq(members, IsRank1)
        sum_obj == SumSeq([k \in 1..Len(members) |-> pop[members[k] + 1].objective_value])
        filter == 2 * Len(rank1) > Len(members)
        BelowAvg(i) == pop[i + 1].objective_value * Len(members) < sum_obj
        kept == SelectSeq(rank1, BelowAvg)
    IN  IF ~filter THEN rank1
        ELSE IF kept = <<>> /\ rank1 # <<>> THEN <<rank1[1]>>
        ELSE kept

\* the leaders of a ranked pool (lines 216-236, and again lines 344-368)
SelectLeaders(pop, members) ==
    LET IsRank1(i) == pop[i + 1].rank = 1
        rank1 == SelectSeq(members, IsRank1)
        sum_obj == SumSeq([k \in 1..Len(members) |-> pop[members[k] + 1].objective_value])
        \* rank1.size() > members.size() * 0.5
        filter == 2 * Len(rank1) > Len(members)
        \* objective_value <= avg_obj,  avg_obj = sum_obj / members.size()
        BelowAvg(i) == pop[i + 1].objective_value * Len(members) <= sum_obj
        kept == SelectSeq(rank1, BelowAvg)
    IN  IF ~filter THEN rank1
        ELSE IF kept = <<>> /\ rank1 # <<>> THEN <<rank1[1]>>
        ELSE kept

\* the loop over the societies of identify_leaders (lines 210-237), from society s
RECURSIVE LeadersFrom(_, _)
LeadersFrom(c, s) ==
    IF s >= Len(c.hubs) THEN c
    ELSE
    LET members == Members(c, s)
    IN  IF members = <<>> THEN LeadersFrom(c, s + 1)
        ELSE
        LET pop == rank_society(c.population, members, 1)
        IN  LeadersFrom([c EXCEPT !.population = pop,
                                  !.society_leaders[s + 1] = SelectLeaders(pop, members)],
                        s + 1)

\* identify_leaders with a slip: no resize(num_societies), the leader set of
\* each society with members is pushed back instead
identify_leaders_pushing(c) ==
    LET e == evaluate_population(c)
        cleared == [e EXCEPT !.society_leaders = [s \in 1..Len(e.hubs) |-> <<>>]]
        done == LeadersFrom(cleared, 0)
        HasLeader(ls) == ls # <<>>
    IN  [done EXCEPT !.society_leaders = SelectSeq(done.society_leaders, HasLeader),
                     !.pc = "move_society_members", !.idx = 0]

\* identify_leaders()
identify_leaders(c) ==
    LET e == evaluate_population(c)
        cleared == [e EXCEPT !.society_leaders = [s \in 1..Len(e.hubs) |-> <<>>]]
    IN  [LeadersFrom(cleared, 0) EXCEPT !.pc = "move_society_members", !.idx = 0]

\* is_leader with a slip: society_leaders[0] searched for every index
is_leader_of_first_society(c, index) ==
    IF c.assignments[index + 1] = -1 THEN FALSE
    ELSE IF c.assignments[index + 1] >= Len(c.society_leaders) THEN FALSE
    ELSE index \in Elems(c.society_leaders[1])

\* is_leader(index)
is_leader(c, index) ==
    IF c.assignments[index + 1] = -1 THEN FALSE
    ELSE IF c.assignments[index + 1] >= Len(c.society_leaders) THEN FALSE
    ELSE index \in Elems(c.society_leaders[c.assignments[index + 1] + 1])

\* acquire_information with a slip: the outer regions extend the pair by its own
\* width instead of reaching to the bounds
acquire_information_overshooting(val_ind, val_leader, lb, ub, r, u) ==
    LET min_v == Min2(val_ind, val_leader)
        max_v == Max2(val_ind, val_leader)
    IN  IF 4 * r < RngRes
        THEN IF min_v <= lb THEN lb ELSE UniformReal(min_v - (max_v - min_v), min_v, u)
        ELSE IF 4 * r < 3 * RngRes
        THEN IF max_v <= min_v THEN min_v ELSE UniformReal(min_v, max_v, u)
        ELSE IF ub <= max_v THEN ub ELSE UniformReal(max_v, max_v + (max_v - min_v), u)

\* acquire_information with a slip: r <= 0.25 and r <= 0.75
acquire_information_inclusive(val_ind, val_leader, lb, ub, r, u) ==
    LET min_v == Min2(val_ind, val_leader)
        max_v == Max2(val_ind, val_leader)
    IN  IF 4 * r <= RngRes
        THEN IF min_v <= lb THEN lb ELSE UniformReal(lb, min_v, u)
        ELSE IF 4 * r <= 3 * RngRes
        THEN IF max_v <= min_v THEN min_v ELSE UniformReal(min_v, max_v, u)
        ELSE IF ub <= max_v THEN ub ELSE UniformReal(max_v, ub, u)

\* acquire_information(val_ind, val_leader, lb, ub): r is the first draw, u the
\* draw of the range distribution (read only when a range is sampled)
acquire_information(val_ind, val_leader, lb, ub, r, u) ==
    LET min_v == Min2(val_ind, val_leader)
        max_v == Max2(val_ind, val_leader)
    IN  IF 4 * r < RngRes                                    \* r < 0.25
        THEN IF min_v <= lb THEN lb ELSE UniformReal(lb, min_v, u)
        ELSE IF 4 * r < 3 * RngRes                           \* r < 0.75
        THEN IF max_v <= min_v THEN min_v ELSE UniformReal(min_v, max_v, u)
        ELSE IF ub <= max_v THEN ub ELSE UniformReal(max_v, ub, u)

\* whether that call reads the range distribution
SamplesRange(val_ind, val_leader, lb, ub, r) ==
    LET min_v == Min2(val_ind, val_leader)
        max_v == Max2(val_ind, val_leader)
    IN  IF 4 * r < RngRes THEN ~(min_v <= lb)
        ELSE IF 4 * r < 3 * RngRes THEN ~(max_v <= min_v)
        ELSE ~(ub <= max_v)

\* the loop  for (j ...) population[i].variables[j] = acquire_information(...)
\* (lines 308-315 and 449-456), from coordinate j
RECURSIVE MoveTowards(_, _, _, _)
MoveTowards(c, i, leader, j) ==
    IF j > NumVars THEN c
    ELSE
    LET x == c.population[i + 1].variables[j]
        y == c.population[leader + 1].variables[j]
        lb == c.lower_bounds[j]
        ub == c.upper_bounds[j]
        r == c.rng[1]
        sampled == SamplesRange(x, y, lb, ub, r)
        v == acquire_information(x, y, lb, ub, r, IF sampled THEN c.rng[2] ELSE 0)
    IN  MoveTowards([c EXCEPT !.population[i + 1].variables[j] = v,
                              !.rng = SubSeq(c.rng, IF sampled THEN 3 ELSE 2, Len(c.rng))],
                    i, leader, j + 1)

\* ScanNearest with a slip: d <= min_dist, the last of several nearest wins
RECURSIVE ScanNearestLast(_, _, _, _, _, _)
ScanNearestLast(c, i, candidates, k, best, arg) ==
    IF k > Len(candidates) THEN arg
    ELSE
    LET d == calculate_distance(c.population[i + 1], c.population[candidates[k] + 1])
    IN  IF best = -1 \/ d <= best
        THEN ScanNearestLast(c, i, candidates, k + 1, d, candidates[k])
        ELSE ScanNearestLast(c, i, candidates, k + 1, best, arg)

\* the scan  if (d < min_dist) { min_dist = d; nearest = l; }  over the vector of
\* candidates, from (best, arg); best = -1 stands for numeric_limits<double>::max()
RECURSIVE ScanNearest(_, _, _, _, _, _)
ScanNearest(c, i, candidates, k, best, arg) ==
    IF k > Len(candidates) THEN arg
    ELSE
    LET d == calculate_distance(c.population[i + 1], c.population[candidates[k] + 1])
    IN  IF best = -1 \/ d < best
        THEN ScanNearest(c, i, candidates, k + 1, d, candidates[k])
        ELSE ScanNearest(c, i, candidates, k + 1, best, arg)

\* the body of the loop of move_society_members for individual i (lines 288-316)
MoveSocietyMember(c, i) ==
    IF is_leader(c, i) THEN c
    ELSE
    LET society_id == c.assignments[i + 1]
    IN  IF society_id = -1 \/ c.society_leaders[society_id + 1] = <<>> THEN c
        ELSE
        LET nearest_leader == ScanNearest(c, i, c.society_leaders[society_id + 1], 1, -1, -1)
        IN  IF nearest_leader # -1 THEN MoveTowards(c, i, nearest_leader, 1) ELSE c

\* move_society_members(): one step of the loop over i = c.idx
move_society_members(c) ==
    IF c.idx >= c.m_pop_size THEN [c EXCEPT !.pc = "form_global_society", !.idx = 0]
    ELSE [MoveSocietyMember(c, c.idx) EXCEPT !.idx = c.idx + 1]

RECURSIVE Concat(_)
Concat(ss) == IF ss = <<>> THEN <<>> ELSE Head(ss) \o Concat(Tail(ss))

\* form_global_society with a slip: the hubs are inserted instead of the
\* leader sets
form_global_society_of_hubs(c) ==
    [c EXCEPT !.global_society = c.hubs,
              !.pc = "identify_super_leaders"]

\* form_global_society()
form_global_society(c) ==
    [c EXCEPT !.global_society = Concat(c.society_leaders),
              !.pc = "identify_super_leaders"]

\* identify_super_leaders with the evaluate_population() call of
\* identify_leaders copied along with its ranking and filter
identify_super_leaders_evaluating(c) ==
    IF c.global_society = <<>> THEN [c EXCEPT !.pc = "move_global_leaders", !.idx = 0]
    ELSE
    LET e == evaluate_population(c)
        pop == rank_society(e.population, e.global_society, 1)
    IN  [e EXCEPT !.population = pop,
                  !.super_leaders = SelectLeaders(pop, e.global_society),
                  !.pc = "move_global_leaders", !.idx = 0]

\* identify_super_leaders with a slip: no super_leaders.clear(), the new super
\* leaders are pushed behind those of the iteration before
identify_super_leaders_keeping(c) ==
    IF c.global_society = <<>> THEN [c EXCEPT !.pc = "move_global_leaders", !.idx = 0]
    ELSE
    LET pop == rank_society(c.population, c.global_society, 1)
    IN  [c EXCEPT !.population = pop,
                  !.super_leaders = c.super_leaders \o SelectLeaders(pop, c.global_society),
                  !.pc = "move_global_leaders", !.idx = 0]

\* identify_super_leaders()
identify_super_leaders(c) ==
    IF c.global_society = <<>> THEN [c EXCEPT !.pc = "move_global_leaders", !.idx = 0]
    ELSE
    LET pop == rank_society(c.population, c.global_society, 1)
    IN  [c EXCEPT !.population = pop,
                  !.super_leaders = SelectLeaders(pop, c.global_society),
                  !.pc = "move_global_leaders", !.idx = 0]

\* is_super_leader with a slip: only the first super leader is compared
is_super_leader_front(c, index) ==
    c.super_leaders # <<>> /\ index = c.super_leaders[1]

\* is_super_leader(index)
is_super_leader(c, index) == index \in Elems(c.super_leaders)

\* the body of the loop of move_global_leaders for leader_idx (lines 432-457)
MoveGlobalLeader(c, leader_idx) ==
    IF is_super_leader(c, leader_idx) THEN c
    ELSE
    LET nearest_super == ScanNearest(c, leader_idx, c.super_leaders, 1, -1, -1)
    IN  IF nearest_super # -1 THEN MoveTowards(c, leader_idx, nearest_super, 1) ELSE c

\* the driver after move_global_leaders: log_state, t++, while (t < MAX_T)
EndOfStep(c) ==
    [c EXCEPT !.t = c.t + 1, !.idx = 0,
              !.pc = IF c.t + 1 < MaxT THEN "cluster_population" ELSE "evaluate_population"]

\* move_global_leaders(): one step of the loop over global_society[c.idx]
move_global_leaders(c) ==
    IF c.super_leaders = <<>> \/ c.idx >= Len(c.global_society) THEN EndOfStep(c)
    ELSE [MoveGlobalLeader(c, c.global_society[c.idx + 1]) EXCEPT !.idx = c.idx + 1]

\* the driver after the time loop: evaluate_population()
FinalEvaluation(c) == [evaluate_population(c) EXCEPT !.pc = "done"]

----------------------------------------------------------------------------
(* Drawing the generator's numbers *)

\* the most draws one step reads
MaxDraws == 2 * NumVars

\* the draw sequences the loop of MoveTowards reads, from coordinate j
RECURSIVE MoveReads(_, _, _, _)
MoveReads(c, i, leader, j) ==
    IF j > NumVars THEN {<<>>}
    ELSE
    LET x == c.population[i + 1].variables[j]
        y == c.population[leader + 1].variables[j]
        rest == MoveReads(c, i, leader, j + 1)
        Sampling(r) == SamplesRange(x, y, c.lower_bounds[j], c.upper_bounds[j], r)
    IN  {<<r>> \o d : r \in {q \in Canon : ~Sampling(q)}, d \in rest}
        \cup {<<r, u>> \o d : r \in {q \in Canon : Sampling(q)}, u \in Canon, d \in rest}

\* the draw sequences the step at c.pc can read
Reads(c) ==
    CASE c.pc = "initialize" ->
            IF c.idx >= c.m_pop_size THEN {<<>>} ELSE [1..NumVars -> Canon]
      [] c.pc = "cluster_population" ->
            IF c.population = <<>> THEN {<<>>} ELSE [1..1 -> Canon]
      [] c.pc = "move_society_members" ->
            IF c.idx >= c.m_pop_size THEN {<<>>}
            ELSE IF is_leader(c, c.idx) THEN {<<>>}
            ELSE IF c.assignments[c.idx + 1] = -1 THEN {<<>>}
            ELSE IF c.society_leaders[c.assignments[c.idx + 1] + 1] = <<>> THEN {<<>>}
            ELSE MoveReads(c, c.idx,
                           ScanNearest(c, c.idx,
                                       c.society_leaders[c.assignments[c.idx + 1] + 1],
                                       1, -1, -1), 1)
      [] c.pc = "move_global_leaders" ->
            IF c.super_leaders = <<>> \/ c.idx >= Len(c.global_society) THEN {<<>>}
            ELSE IF is_super_leader(c, c.global_society[c.idx + 1]) THEN {<<>>}
            ELSE MoveReads(c, c.global_society[c.idx + 1],
                           ScanNearest(c, c.global_society[c.idx + 1], c.super_leaders,
                                       1, -1, -1), 1)
      [] OTHER -> {<<>>}

\* the step of the run at c.pc, reading the stream c.rng
Step(c) ==
    CASE c.pc = "initialize" -> Initialize(c)
      [] c.pc = "cluster_population" -> ClusterStart(c)
      [] c.pc = "cluster_loop" -> ClusterLoop(c)
      [] c.pc = "identify_leaders" -> identify_leaders(c)
      [] c.pc = "move_society_members" -> move_society_members(c)
      [] c.pc = "form_global_society" -> form_global_society(c)
      [] c.pc = "identify_super_leaders" -> identify_super_leaders(c)
      [] c.pc = "move_global_leaders" -> move_global_leaders(c)
      [] c.pc = "evaluate_population" -> FinalEvaluation(c)
      [] OTHER -> c

\* the step at c.pc with the draws d offered to it; what it did not read is dropped
StepWith(c, d) == [Step([c EXCEPT !.rng = d]) EXCEPT !.rng = <<>>]

----------------------------------------------------------------------------
(* The runs: every construction the model's bounds allow.  As in           *)
(* problem4_1 (bounds {13, 0} and {100, 100}) the first variable's lower   *)
(* bound is not 0 and the two ranges differ.                               *)

LowerBounds == <<1, 0>>

UpperBounds == <<1 + MaxCoord, MaxCoord - 1>>

Constructions ==
    {Civilization(m, LowerBounds, UpperBounds, p) : m \in 1..MaxPop, p \in Problems}

NoTwin == <<>>

NoCall == <<>>

Init ==
    /\ civ \in Constructions
    /\ twin = NoTwin
    /\ acq = NoCall

\* initialize(): one individual
DoInitialize ==
    /\ civ.pc = "initialize"
    /\ \E d \in Reads(civ) : civ' = StepWith(civ, d)
    /\ UNCHANGED <<twin, acq>>

\* cluster_population(): the two first hubs and the first assignment
DoClusterStart ==
    /\ civ.pc = "cluster_population"
    /\ \E d \in Reads(civ) : civ' = StepWith(civ, d)
    /\ UNCHANGED <<twin, acq>>

\* cluster_population(): one pass of the clustering loop
DoClusterLoop ==
    /\ civ.pc = "cluster_loop"
    /\ civ' = StepWith(civ, <<>>)
    /\ UNCHANGED <<twin, acq>>

\* identify_leaders()
DoIdentifyLeaders ==
    /\ civ.pc = "identify_leaders"
    /\ civ' = StepWith(civ, <<>>)
    /\ UNCHANGED <<twin, acq>>

\* move_society_members(): one individual
DoMoveSocietyMembers ==
    /\ civ.pc = "move_society_members"
    /\ \E d \in Reads(civ) : civ' = StepWith(civ, d)
    /\ UNCHANGED <<twin, acq>>

\* form_global_society()
DoFormGlobalSociety ==
    /\ civ.pc = "form_global_society"
    /\ civ' = StepWith(civ, <<>>)
    /\ UNCHANGED <<twin, acq>>

\* identify_super_leaders()
DoIdentifySuperLeaders ==
    /\ civ.pc = "identify_super_leaders"
    /\ civ' = StepWith(civ, <<>>)
    /\ UNCHANGED <<twin, acq>>

\* move_global_leaders(): one member of global_society
DoMoveGlobalLeaders ==
    /\ civ.pc = "move_global_leaders"
    /\ \E d \in Reads(civ) : civ' = StepWith(civ, d)
    /\ UNCHANGED <<twin, acq>>

\* evaluate_population() after the time loop
DoFinalEvaluation ==
    /\ civ.pc = "evaluate_population"
    /\ civ' = StepWith(civ, <<>>)
    /\ UNCHANGED <<twin, acq>>

Next ==
    \/ DoInitialize
    \/ DoClusterStart
    \/ DoClusterLoop
    \/ DoIdentifyLeaders
    \/ DoMoveSocietyMembers
    \/ DoFormGlobalSociety
    \/ DoIdentifySuperLeaders
    \/ DoMoveGlobalLeaders
    \/ DoFinalEvaluation

Spec == Init /\ [][Next]_vars

----------------------------------------------------------------------------
(* cluster_population on its own: from every population within the bounds  *)
(* (what initialize() and the migrations can leave), every first hub.  The *)
(* loop is sequential code: a pass that can run does run.                  *)

Points == {v \in [Vars -> 0..(MaxCoord + 1)] :
              \A j \in Vars : v[j] \in LowerBounds[j]..UpperBounds[j]}

Populations(m) ==
    {[i \in 1..m |-> [Individual(NumVars) EXCEPT !.variables = vs[i]]] :
        vs \in [1..m -> Points]}

InitCluster ==
    /\ \E m \in 1..MaxPop : \E pop \in Populations(m) :
          civ = [Civilization(m, LowerBounds, UpperBounds, 1) EXCEPT
                    !.population = pop, !.pc = "cluster_population"]
    /\ twin = NoTwin
    /\ acq = NoCall

NextCluster ==
    \/ DoClusterStart
    \/ DoClusterLoop

SpecCluster == InitCluster /\ [][NextCluster]_vars /\ WF_vars(NextCluster)

----------------------------------------------------------------------------
(* cluster_population on populations large enough for two individuals to   *)
(* be equally far from their hub without being near each other             *)

MaxClusterPop == 4

InitClusterTies ==
    /\ \E pop \in Populations(MaxClusterPop) :
          civ = [Civilization(MaxClusterPop, LowerBounds, UpperBounds, 1) EXCEPT
                    !.population = pop, !.pc = "cluster_population"]
    /\ twin = NoTwin
    /\ acq = NoCall

NextClusterTies == NextCluster

SpecClusterTies == InitClusterTies /\ [][NextClusterTies]_vars

----------------------------------------------------------------------------
(* cluster_population on a square search space, where an individual can    *)
(* stay as near to an old hub as to a new one until the loop stops         *)

SquareLowerBounds == [j \in Vars |-> 0]

SquareUpperBounds == [j \in Vars |-> MaxCoord]

SquarePoints == [Vars -> 0..MaxCoord]

InitClusterSquare ==
    /\ \E vs \in [1..MaxClusterPop -> SquarePoints] :
          civ = [Civilization(MaxClusterPop, SquareLowerBounds,
                              SquareUpperBounds, 1) EXCEPT
                    !.population = [i \in 1..MaxClusterPop |->
                        [Individual(NumVars) EXCEPT !.variables = vs[i]]],
                    !.pc = "cluster_population"]
    /\ twin = NoTwin
    /\ acq = NoCall

NextClusterSquare == NextCluster

SpecClusterSquare == InitClusterSquare /\ [][NextClusterSquare]_vars

----------------------------------------------------------------------------
(* Ranking and leader selection on arbitrary pools: identify_super_leaders  *)
(* (a public method) on a population whose stored violations, objectives   *)
(* and left-over ranks are whatever the injected functions and earlier     *)
(* rounds made them, and on any pool of its indices.                        *)

\* an evaluated individual; where it is plays no part
Evaluated ==
    {[Individual(NumVars) EXCEPT !.variables = LowerBounds,
                                 !.constraint_violations = v,
                                 !.objective_value = f,
                                 !.rank = k] :
        v \in [1..2 -> 0..1], f \in 0..MaxCoord, k \in 0..1}

RECURSIVE Ascending(_)
Ascending(S) ==
    IF S = {} THEN <<>>
    ELSE LET x == CHOOSE y \in S : \A z \in S : y <= z
         IN  <<x>> \o Ascending(S \ {x})

Reverse(q) == [k \in 1..Len(q) |-> q[Len(q) + 1 - k]]

\* the pools of indices of a population of m: every non-empty set of them, in
\* ascending and in descending order
Pools(m) ==
    LET Sets == (SUBSET (0..(m - 1))) \ {{}}
    IN  {Ascending(S) : S \in Sets} \cup {Reverse(Ascending(S)) : S \in Sets}

InitRank ==
    /\ \E pop \in [1..MaxPop -> Evaluated] : \E pool \in Pools(MaxPop) :
          civ = [Civilization(MaxPop, LowerBounds, UpperBounds, 1) EXCEPT
                    !.population = pop,
                    !.global_society = pool,
                    !.pc = "identify_super_leaders"]
    /\ twin = NoTwin
    /\ acq = NoCall

NextRank == DoIdentifySuperLeaders

SpecRank == InitRank /\ [][NextRank]_vars

----------------------------------------------------------------------------
(* The runs, with the numbers the generator gave to the last step of a     *)
(* migration loop kept beside the object                                    *)

\* the injected functions are those without constraints: every individual is
\* of rank 1 and the objective alone makes the leaders
InitDraws ==
    /\ \E m \in 1..MaxPop : civ = Civilization(m, LowerBounds, UpperBounds, 2)
    /\ acq = <<>>
    /\ twin = NoTwin

Migrating(c) == c.pc \in {"move_society_members", "move_global_leaders"}

\* the next operation of the driver, on the draws it reads
DoOperate ==
    /\ civ.pc # "done"
    /\ \E d \in Reads(civ) :
          /\ civ' = StepWith(civ, d)
          /\ acq' = IF Migrating(civ) THEN d ELSE <<>>
    /\ UNCHANGED twin

NextDraws == DoOperate

SpecDraws == InitDraws /\ [][NextDraws]_vars

----------------------------------------------------------------------------
(* The driver with a record of one iteration: the variables the iteration  *)
(* started from and, for every individual, the phases in which the         *)
(* migration loop ran on it                                                *)

NoMoves == [start |-> <<>>, moves |-> <<>>, draws |-> <<>>]

InitMoves ==
    /\ \E m \in 1..MaxPop : civ = Civilization(m, LowerBounds, UpperBounds, 2)
    /\ acq = NoMoves
    /\ twin = NoTwin

\* the individual the migration step at c.pc is about
Mover(c) ==
    IF c.pc = "move_society_members" THEN c.idx ELSE c.global_society[c.idx + 1]

\* the record h after the step at c.pc, which read the first n of the draws
\* d: cluster_population opens an iteration, a migration step that read draws
\* ran the loop over the coordinates of its individual
Recorded(c, h, d, n) ==
    IF c.pc = "cluster_population"
    THEN [start |-> [i \in 1..Len(c.population) |-> c.population[i].variables],
          moves |-> [i \in 1..Len(c.population) |-> <<>>],
          draws |-> <<>>]
    ELSE IF Migrating(c) /\ n > 0
    THEN [h EXCEPT !.moves[Mover(c) + 1] = Append(@, c.pc),
                   !.draws = SubSeq(d, 1, n)]
    ELSE [h EXCEPT !.draws = <<>>]

\* the next operation of the driver, recorded
DoOperateRecorded ==
    /\ civ.pc # "done"
    /\ \E d \in Reads(civ) :
          LET after == Step([civ EXCEPT !.rng = d])
          IN  /\ civ' = [after EXCEPT !.rng = <<>>]
              /\ acq' = Recorded(civ, acq, d, Len(d) - Len(after.rng))
    /\ UNCHANGED twin

NextMoves == DoOperateRecorded

SpecMoves == InitMoves /\ [][NextMoves]_vars

----------------------------------------------------------------------------
(* One call of acquire_information (a public method) on arbitrary arguments *)

\* the run the object is left in while only the operator is exercised
NoRun == Civilization(1, LowerBounds, UpperBounds, 1)

\* the values of val_ind, val_leader, lb and ub: inside, on and outside the
\* bounds, lb above ub included
Arguments == (0 - 1)..(MaxCoord + 1)

InitAcq ==
    /\ \E x \in Arguments : \E y \in Arguments : \E lb \in Arguments : \E ub \in Arguments :
          acq = [val_ind |-> x, val_leader |-> y, lb |-> lb, ub |-> ub,
                 r |-> 0, u |-> 0, result |-> 0, pc |-> "call"]
    /\ civ = NoRun
    /\ twin = NoTwin

\* acquire_information(val_ind, val_leader, lb, ub) with the draws r, and u when
\* a range is sampled
DoAcquire ==
    /\ acq.pc = "call"
    /\ \E r \in Canon :
          \E u \in (IF SamplesRange(acq.val_ind, acq.val_leader, acq.lb, acq.ub, r)
                    THEN Canon ELSE {0}) :
              acq' = [acq EXCEPT
                         !.r = r,
                         !.u = u,
                         !.result = acquire_information(acq.val_ind, acq.val_leader,
                                                        acq.lb, acq.ub, r, u),
                         !.pc = "return"]
    /\ UNCHANGED <<civ, twin>>

NextAcq == DoAcquire

SpecAcq == InitAcq /\ [][NextAcq]_vars

----------------------------------------------------------------------------
(* Two objects constructed alike and driven alike.  std::mt19937 is stood   *)
(* for by a small generator of the same kind: its state is set by seed()   *)
(* and every number drawn is a function of the state, which it advances.   *)

GenMod == 16

Seeds == 0..(GenMod - 1)

\* rng.seed() with a slip: seeded from std::random_device (lines 59-60), which
\* hands every object a value of its own
SeedFromDevice(instance, seed) == (seed + instance) % GenMod

\* rng.seed(seed) in the constructor of object number instance
Seed(instance, seed) == seed % GenMod

\* the generator's transition and output functions
NextGen(g) == (5 * g + 3) % GenMod

GenOutput(g) == (g * RngRes) \div GenMod

RECURSIVE Stream(_, _)
Stream(g, n) == IF n = 0 THEN <<>> ELSE <<GenOutput(g)>> \o Stream(NextGen(g), n - 1)

RECURSIVE Advance(_, _)
Advance(g, n) == IF n = 0 THEN g ELSE Advance(NextGen(g), n - 1)

\* the object number instance, constructed as c with the seed
Construct(instance, c, seed) == [run |-> c, gen |-> Seed(instance, seed), ops |-> 0]

\* the next operation of the driver on the object x: the step reads the
\* generator's stream, and the generator has advanced by what was read
Operate(x) ==
    LET s == Step([x.run EXCEPT !.rng = Stream(x.gen, MaxDraws)])
    IN  [run |-> [s EXCEPT !.rng = <<>>],
         gen |-> Advance(x.gen, MaxDraws - Len(s.rng)),
         ops |-> x.ops + 1]

InitDet ==
    /\ \E c \in Constructions : \E seed \in Seeds :
          twin = [a |-> Construct(1, c, seed), b |-> Construct(2, c, seed)]
    /\ civ = NoRun
    /\ acq = NoCall

\* the first object runs its next operation
DoOperateA ==
    /\ twin.a.run.pc # "done"
    /\ twin.a.ops = twin.b.ops
    /\ twin' = [twin EXCEPT !.a = Operate(twin.a)]
    /\ UNCHANGED <<civ, acq>>

\* the second object runs the same operation
DoOperateB ==
    /\ twin.b.ops < twin.a.ops
    /\ twin' = [twin EXCEPT !.b = Operate(twin.b)]
    /\ UNCHANGED <<civ, acq>>

NextDet ==
    \/ DoOperateA
    \/ DoOperateB

SpecDet == InitDet /\ [][NextDet]_vars

----------------------------------------------------------------------------
(* The runs on configurations a caller can pass but should not: the         *)
(* constructor takes any pop_size and any two vectors of bounds.            *)

\* per variable: the upper bound below the lower one, equal to it, or proper
UpperBoundChoices == [j \in Vars |-> {LowerBounds[j] - 1, LowerBounds[j], UpperBounds[j]}]

DegenerateUpperBounds ==
    {ub \in [Vars -> (0 - 1)..(MaxCoord + 1)] :
        /\ \A j \in Vars : ub[j] \in UpperBoundChoices[j]
        /\ \E j \in Vars : LowerBounds[j] >= ub[j]}

InitConfig ==
    /\ \E m \in 0..MaxPop : \E ub \in DegenerateUpperBounds :
          civ = Civilization(m, LowerBounds, ub, 1)
    /\ twin = NoTwin
    /\ acq = NoCall

NextConfig == Next

SpecConfig == InitConfig /\ [][NextConfig]_vars

----------------------------------------------------------------------------
(* Clustering *)

\* cluster_population has returned and nothing has run since
Clustered == civ.pc = "identify_leaders" /\ civ.population # <<>>

Individuals == 0..(civ.m_pop_size - 1)

\* C1: cluster_population terminates: from every population and every first
\* hub, the hub-growing loop reaches its stop condition (and returns) after
\* finitely many promotions.
C1_ClusterTerminates == <>(civ.pc = "identify_leaders")

\* the loop has stopped after promoting a hub
C1_Witness == Clustered /\ Len(civ.hubs) >= 3

\* C2: when cluster_population returns, every individual's distance to its
\* assigned hub is at most D, half the average pairwise distance of the final
\* hubs:  d <= (total / pairs) / 2,  i.e.  2 * pairs * d <= total.
C2_WithinHalfAverageHubDistance ==
    Clustered =>
        LET H == 1..Len(civ.hubs)
            P == {p \in H \X H : p[1] < p[2]}
            total == SumPairs(civ, P)
        IN  /\ P # {}
            /\ \A i \in Individuals :
                  2 * Cardinality(P)
                    * calculate_distance(civ.population[i + 1],
                                         civ.population[civ.hubs[civ.assignments[i + 1] + 1] + 1])
                  <= total

\* converged with a member that is not at its hub's position
C2_Witness ==
    /\ Clustered
    /\ \E i \in Individuals : HubDistance(civ, i) > 0

\* C3: after cluster_population on a non-empty population there are at least
\* two hubs and every individual is assigned to one society: assignments[i]
\* is in [0, len(hubs)), never -1.
C3_TwoHubsAllAssigned ==
    Clustered =>
        /\ Len(civ.hubs) >= 2
        /\ Len(civ.assignments) = civ.m_pop_size
        /\ \A i \in Individuals :
              /\ civ.assignments[i + 1] # -1
              /\ civ.assignments[i + 1] \in 0..(Len(civ.hubs) - 1)

\* clustered, all individuals at one point (the second hub is at distance 0)
C3_Witness ==
    /\ Clustered
    /\ civ.m_pop_size >= 2
    /\ \A i \in Individuals : civ.population[i + 1].variables = civ.population[1].variables

----------------------------------------------------------------------------
(* Ranking and leaders *)

\* identify_leaders has returned and nothing has run since
LeadersIdentified == civ.pc = "move_society_members" /\ civ.idx = 0

\* identify_super_leaders has returned and nothing has run since
SuperLeadersIdentified == civ.pc = "move_global_leaders" /\ civ.idx = 0

Societies == 0..(Len(civ.hubs) - 1)

Rank(i) == civ.population[i + 1].rank

\* in the pool, whoever dominates another has the strictly lower rank number
StrictlyRanked(pool) ==
    \A a \in Elems(pool) : \A b \in Elems(pool) :
        /\ Rank(a) >= 1
        /\ LET A == civ.population[a + 1].constraint_violations
               B == civ.population[b + 1].constraint_violations
           IN  ((\A k \in 1..Len(A) : A[k] <= B[k]) /\ (\E k \in 1..Len(A) : A[k] < B[k]))
                   => Rank(a) < Rank(b)

\* C4: after rank_society on a pool (every society in identify_leaders, the
\* global society in identify_super_leaders), if A dominates B (A's violations
\* <= B's in every component and < in at least one), then rank(A) < rank(B).
C4_DominatorRanksLower ==
    /\ LeadersIdentified => \A s \in Societies : StrictlyRanked(Members(civ, s))
    /\ SuperLeadersIdentified => StrictlyRanked(civ.global_society)

\* a society in which one member dominates another: ranks 1 and 2
C4_Witness ==
    /\ LeadersIdentified
    /\ \E s \in Societies :
          LET ms == Elems(Members(civ, s))
          IN  \E a \in ms : \E b \in ms :
                 /\ dominates(civ.population[a + 1], civ.population[b + 1])
                 /\ Rank(a) = 1
                 /\ Rank(b) = 2

\* C5: leader selection never yields an empty leader set for a non-empty pool:
\* after identify_leaders every society with a member has a local leader, and
\* after identify_super_leaders super_leaders is non-empty whenever
\* global_society is.
C5_LeadersNeverEmpty ==
    /\ LeadersIdentified =>
          /\ Len(civ.society_leaders) = Len(civ.hubs)
          /\ \A s \in Societies :
                Members(civ, s) # <<>> => civ.society_leaders[s + 1] # <<>>
    /\ SuperLeadersIdentified =>
          (civ.global_society # <<>> => civ.super_leaders # <<>>)

\* the objective of individual i is above the mean objective of the pool
AboveMean(i, pool) ==
    civ.population[i + 1].objective_value * Len(pool)
        > SumSeq([k \in 1..Len(pool) |-> civ.population[pool[k] + 1].objective_value])

\* a global society whose rank-1 members are more than half of it and all
\* above its mean objective: the fallback picked the one super leader
C5_Witness ==
    /\ SuperLeadersIdentified
    /\ LET ms == civ.global_society
           r1 == {i \in Elems(ms) : Rank(i) = 1}
       IN  /\ 2 * Cardinality(r1) > Len(ms)
           /\ \A i \in r1 : AboveMean(i, ms)
           /\ Len(civ.super_leaders) = 1

----------------------------------------------------------------------------
(* Bounds of the variables *)

\* C6: with lower_bounds[j] < upper_bounds[j] for all j, after initialize() and
\* after any number of iterations, at every point of them, every individual's
\* every coordinate is within its bounds.
C6_WithinBounds ==
    (\A j \in Vars : civ.lower_bounds[j] < civ.upper_bounds[j]) =>
        \A i \in 1..Len(civ.population) : \A j \in Vars :
            /\ civ.lower_bounds[j] <= civ.population[i].variables[j]
            /\ civ.population[i].variables[j] <= civ.upper_bounds[j]

\* in the second iteration, individuals on a lower and on an upper bound, one
\* of them moved there by a migration (its stored objective is out of date)
C6_Witness ==
    /\ civ.t >= 1
    /\ civ.pc = "cluster_population"
    /\ \E i \in 1..Len(civ.population) :
          /\ civ.population[i].variables[1] = civ.upper_bounds[1]
          /\ civ.population[i].objective_value
                # ObjectiveFn(civ.problem, civ.population[i])
    /\ \E i \in 1..Len(civ.population) :
          civ.population[i].variables[2] = civ.lower_bounds[2]

----------------------------------------------------------------------------
(* The migration operator *)

Returned == acq.pc = "return"

WithinBounds(v) == acq.lb <= v /\ v <= acq.ub

\* C7 as stated: acquire_information(ind_val, leader_val, lb, ub) returns a
\* value in [lb, ub] inclusive for any inputs and any random draws.
C7_AnyInputsWithinBounds == Returned => WithinBounds(acq.result)

\* C7: acquire_information(ind_val, leader_val, lb, ub) returns a value in
\* [lb, ub] inclusive, for any random draws, whenever ind_val and leader_val
\* are themselves in [lb, ub].
C7_WithinBoundsFromWithin ==
    (Returned /\ WithinBounds(acq.val_ind) /\ WithinBounds(acq.val_leader))
        => WithinBounds(acq.result)

\* a call from within the bounds that sampled a range and returned a value
\* that is none of its four arguments
C7_Witness ==
    /\ Returned
    /\ WithinBounds(acq.val_ind)
    /\ WithinBounds(acq.val_leader)
    /\ SamplesRange(acq.val_ind, acq.val_leader, acq.lb, acq.ub, acq.r)
    /\ acq.result \notin {acq.val_ind, acq.val_leader, acq.lb, acq.ub}

----------------------------------------------------------------------------
(* Determinism *)

----------------------------------------------------------------------------
(* The phases of a time step *)

\* a step of the loop over the individuals (or over global_society) is followed
\* by the next one, and the phase is left only at the end of the loop
LoopThenGo(last, next) ==
    IF civ.idx < last
    THEN civ'.pc = civ.pc /\ civ'.idx = civ.idx + 1 /\ civ'.t = civ.t
    ELSE next

\* the order of the phases of one time step, none skipped or left early
InOrder ==
    /\ civ.pc = "cluster_population" =>
          /\ civ.population # <<>>
          /\ civ'.pc = "cluster_loop"
          /\ Len(civ'.hubs) = 2
          /\ civ'.t = civ.t
    /\ civ.pc = "cluster_loop" =>
          /\ civ'.t = civ.t
          /\ \/ civ'.pc = "cluster_loop" /\ Len(civ'.hubs) = Len(civ.hubs) + 1
             \/ civ'.pc = "identify_leaders" /\ civ'.hubs = civ.hubs
    /\ civ.pc = "identify_leaders" =>
          /\ civ'.pc = "move_society_members"
          /\ civ'.idx = 0
          /\ civ'.t = civ.t
          /\ civ'.evaluations = civ.evaluations + civ.m_pop_size
          /\ \A i \in 1..Len(civ.population) : civ'.population[i].rank >= 1
    /\ civ.pc = "move_society_members" =>
          LoopThenGo(civ.m_pop_size,
                     civ'.pc = "form_global_society" /\ civ'.idx = 0 /\ civ'.t = civ.t)
    /\ civ.pc = "form_global_society" =>
          /\ civ'.pc = "identify_super_leaders"
          /\ civ'.global_society = Concat(civ.society_leaders)
          /\ civ'.t = civ.t
    /\ civ.pc = "identify_super_leaders" =>
          /\ civ.global_society # <<>>
          /\ civ'.pc = "move_global_leaders"
          /\ civ'.idx = 0
          /\ civ'.t = civ.t
          /\ civ'.super_leaders # <<>>
          /\ \E i \in Elems(civ.global_society) : civ'.population[i + 1].rank = 1
    /\ civ.pc = "move_global_leaders" =>
          LoopThenGo(Len(civ.global_society),
                     /\ civ'.t = civ.t + 1
                     /\ civ'.pc = IF civ'.t < MaxT THEN "cluster_population"
                                  ELSE "evaluate_population")

\* identify_super_leaders calls the injected functions on the global society
GlobalSocietyEvaluated ==
    civ'.evaluations >= civ.evaluations + Len(civ.global_society)

\* identify_super_leaders calls no injected function and leaves every stored
\* objective value and violation as identify_leaders computed it
GlobalSocietyRankedOnly ==
    /\ civ'.evaluations = civ.evaluations
    /\ \A i \in 1..Len(civ.population) :
          /\ civ'.population[i].objective_value = civ.population[i].objective_value
          /\ civ'.population[i].constraint_violations
                = civ.population[i].constraint_violations

\* C9 as stated: in every time step the phases run once each in the fixed
\* order Cluster, Evaluate+Rank per society, SelectLocalLeaders, MigrateMembers,
\* PoolGlobalSociety, Evaluate+Rank of the global society, SelectSuperLeaders,
\* MigrateLocalLeaders; the global society is evaluated and ranked after
\* pooling and before super-leader selection, and no phase is skipped or
\* terminated early.
C9_GlobalSocietyEvaluatedInOrder ==
    [][InOrder /\ (civ.pc = "identify_super_leaders" => GlobalSocietyEvaluated)]_vars

\* C9: in every time step the phases run once each in the fixed order Cluster,
\* Evaluate (the whole population) + Rank per society, SelectLocalLeaders,
\* MigrateMembers, PoolGlobalSociety, Rank of the global society,
\* SelectSuperLeaders, MigrateLocalLeaders; the global society is ranked, on
\* the values stored by the evaluation in identify_leaders and without being
\* evaluated again, after pooling and before super-leader selection, and no
\* phase is skipped or terminated early.
C9_PhasesInOrder ==
    [][InOrder /\ (civ.pc = "identify_super_leaders" => GlobalSocietyRankedOnly)]_vars

\* a whole time step has run, with one evaluation of each individual, a global
\* society of several leaders and its super leaders
C9_Witness ==
    /\ civ.t >= 1
    /\ civ.pc = "cluster_population"
    /\ civ.evaluations = civ.t * civ.m_pop_size
    /\ Len(civ.global_society) >= 2
    /\ civ.super_leaders # <<>>

----------------------------------------------------------------------------
(* Who moves *)

LocalLeaders == {i \in Individuals : \E s \in Societies : i \in Elems(civ.society_leaders[s + 1])}

SuperLeaders == Elems(civ.super_leaders)

Stays(i) == civ'.population[i + 1].variables = civ.population[i + 1].variables

\* the stored objective of individual i is not that of its variables: it has
\* moved since it was evaluated
HasMoved(i) ==
    civ.population[i + 1].objective_value
        # ObjectiveFn(civ.problem, civ.population[i + 1])

\* C10: leaders never move in their own phase: move_society_members leaves the
\* variables of every local leader unchanged, and move_global_leaders leaves
\* unchanged the variables of every super leader and of every individual that
\* is not in global_society.
C10_LeadersStay ==
    [][/\ civ.pc = "move_society_members" => \A i \in LocalLeaders : Stays(i)
       /\ civ.pc = "move_global_leaders" =>
             \A i \in Individuals :
                 (i \in SuperLeaders \/ i \notin Elems(civ.global_society)) => Stays(i)
      ]_vars

\* at the end of a time step: a member that moved towards its leader, a local
\* leader that moved towards a super leader, and a super leader
C10_Witness ==
    /\ civ.t >= 1
    /\ civ.pc = "cluster_population"
    /\ \E i \in Individuals : i \notin LocalLeaders /\ HasMoved(i)
    /\ \E i \in LocalLeaders : i \notin SuperLeaders /\ HasMoved(i)
    /\ \E i \in SuperLeaders : ~HasMoved(i)

----------------------------------------------------------------------------
(* Configuration errors *)

\* an operation has run on the object
Operated == civ.pc # "initialize" \/ civ.idx > 0

\* C11 as stated: construction fails fast with a precondition violation,
\* creating no usable instance, when the length of lower_bounds or upper_bounds
\* differs from n or when the population size m is less than 2: no operation
\* ever runs on such an object.
C11_ConstructionFailsFast ==
    (\/ Len(civ.lower_bounds) # NumVars
     \/ Len(civ.upper_bounds) # NumVars
     \/ civ.m_pop_size < 2) => ~Operated

\* C12 as stated: degenerate bounds (lower_bounds[j] >= upper_bounds[j] for
\* some j) are detected at construction or initialize() and cause an immediate
\* failure; they are never silently accepted or clamped to a single value by
\* initialize() or by the migration operator: no individual is ever created
\* from them.
C12_DegenerateBoundsRejected ==
    (\E j \in Vars : civ.lower_bounds[j] >= civ.upper_bounds[j])
        => civ.population = <<>>

----------------------------------------------------------------------------
(* Societies without members *)

EmptySocieties == {s \in Societies : Members(civ, s) = <<>>}

\* C13: after identify_leaders, society_leaders has exactly one entry per
\* society (its length equals len(hubs)); a society with no members is skipped
\* without failure: its leader set is empty, it contributes nothing to
\* global_society, and member migration performs no out-of-range access
\* because of it.
C13_EmptySocietySkipped ==
    /\ LeadersIdentified =>
          /\ Len(civ.society_leaders) = Len(civ.hubs)
          /\ \A s \in EmptySocieties : civ.society_leaders[s + 1] = <<>>
    /\ civ.pc = "move_society_members" =>
          \A i \in Individuals :
              /\ civ.assignments[i + 1] \in 0..(Len(civ.society_leaders) - 1)
              /\ \A l \in Elems(civ.society_leaders[civ.assignments[i + 1] + 1]) :
                    l \in Individuals
    /\ civ.pc = "identify_super_leaders" =>
          /\ \A g \in Elems(civ.global_society) : civ.assignments[g + 1] \notin EmptySocieties
          /\ Len(civ.global_society)
                = SumSeq([k \in 1..Len(civ.hubs) |->
                             IF (k - 1) \in EmptySocieties THEN 0
                             ELSE Len(civ.society_leaders[k])])

\* several individuals and a society without members (they are all at one
\* point): the migration loop has run and the global society has been formed
C13_Witness ==
    /\ civ.pc = "identify_super_leaders"
    /\ civ.m_pop_size >= 2
    /\ EmptySocieties # {}
    /\ Len(civ.global_society) = civ.m_pop_size

----------------------------------------------------------------------------
(* Populations at one point *)

AllAtOnePoint ==
    \A i \in 1..Len(civ.population) : \A k \in 1..Len(civ.population) :
        civ.population[i].variables = civ.population[k].variables

\* C14: for a population in which all individuals are at the same point,
\* cluster_population converges immediately, with no hub promotion in the
\* loop, and ends with exactly 2 hubs whose mutual distance is 0, whichever
\* individual is drawn as first hub.
C14_OnePointTwoHubs ==
    [][AllAtOnePoint =>
          /\ civ.pc = "cluster_population" =>
                /\ civ'.pc = "cluster_loop"
                /\ Len(civ'.hubs) = 2
          /\ civ.pc = "cluster_loop" =>
                /\ civ'.pc = "identify_leaders"
                /\ civ'.hubs = civ.hubs
                /\ Len(civ'.hubs) = 2
                /\ calculate_distance(civ'.population[civ'.hubs[1] + 1],
                                      civ'.population[civ'.hubs[2] + 1]) = 0
      ]_vars

\* three individuals at one point, clustered from a first hub other than
\* individual 0
C14_Witness ==
    /\ Clustered
    /\ AllAtOnePoint
    /\ civ.m_pop_size >= 3
    /\ civ.hubs[1] # 0

TwoIdenticalPoints == civ.m_pop_size = 2 /\ AllAtOnePoint

MemberCount(s) == Len(Members(civ, s))

\* C15 as stated: for a population of 2 identical points, clustering produces
\* exactly 2 societies with one member each.
C15_OneMemberEach ==
    (Clustered /\ TwoIdenticalPoints) =>
        /\ Len(civ.hubs) = 2
        /\ \A s \in Societies : MemberCount(s) = 1

\* C15: for a population of 2 identical points, clustering produces exactly 2
\* societies, the first with both individuals as members (the tie d1 <= d2
\* goes to hub 0) and the second with none.
C15_BothInFirstSociety ==
    (Clustered /\ TwoIdenticalPoints) =>
        /\ Len(civ.hubs) = 2
        /\ civ.assignments = <<0, 0>>
        /\ MemberCount(0) = 2
        /\ MemberCount(1) = 0

\* two identical points clustered from individual 1 as first hub
C15_Witness ==
    /\ Clustered
    /\ TwoIdenticalPoints
    /\ civ.hubs = <<1, 0>>

----------------------------------------------------------------------------
(* The worst-case distance across a promotion *)

\* the loop promotes a hub in this step
Promotion == civ.pc = "cluster_loop" /\ civ'.pc = "cluster_loop"

AwayFromHub(c) == {i \in 0..(c.m_pop_size - 1) : HubDistance(c, i) > 0}

\* C16 as stated: each promotion of a new hub (followed by the reassignment
\* scan) strictly reduces the worst-case distance: the maximum over all
\* individuals of the distance to their assigned hub is strictly smaller after
\* the promotion than before it.
C16_WorstCaseStrictlySmaller ==
    [][Promotion => max_d(civ') < max_d(civ)]_vars

\* C16: each promotion of a new hub (followed by the reassignment scan) never
\* increases the worst-case distance (no individual is farther from its
\* assigned hub after it than before) and strictly reduces the number of
\* individuals at a non-zero distance from their hub: the promoted one goes
\* from the maximum to 0.
C16_WorstCaseNeverLarger ==
    [][Promotion =>
          /\ max_d(civ') <= max_d(civ)
          /\ \A i \in Individuals : HubDistance(civ', i) <= HubDistance(civ, i)
          /\ HubDistance(civ, civ'.hubs[Len(civ'.hubs)]) = max_d(civ)
          /\ HubDistance(civ', civ'.hubs[Len(civ'.hubs)]) = 0
          /\ Cardinality(AwayFromHub(civ')) < Cardinality(AwayFromHub(civ))
      ]_vars

\* after the first promotion the worst-case distance is what it was: the
\* distance the promoted individual had to the nearer of the first two hubs
C16_Witness ==
    /\ civ.pc = "cluster_loop"
    /\ Len(civ.hubs) = 3
    /\ max_d(civ)
          = Min2(calculate_distance(civ.population[civ.hubs[3] + 1],
                                    civ.population[civ.hubs[1] + 1]),
                 calculate_distance(civ.population[civ.hubs[3] + 1],
                                    civ.population[civ.hubs[2] + 1]))

----------------------------------------------------------------------------
(* Front peeling *)

Pool == Elems(civ.global_society)

\* a dominates b: no violation larger, one strictly smaller
Dominates(a, b) ==
    LET A == civ.population[a + 1].constraint_violations
        B == civ.population[b + 1].constraint_violations
    IN  /\ \A k \in 1..Len(A) : A[k] <= B[k]
        /\ \E k \in 1..Len(A) : A[k] < B[k]

\* the members of the pool of rank k or more
FromFront(k) == {i \in Pool : Rank(i) >= k}

\* C17: rank_society on any finite pool terminates and assigns every pool
\* member a rank >= 1 by front peeling: rank 1 is exactly the set of members
\* not dominated by any other member of the pool, and for each k > 1 rank k
\* is exactly the set of members not dominated by any member of rank >= k,
\* among those of rank >= k.
C17_FrontPeeling ==
    SuperLeadersIdentified =>
        /\ \A i \in Pool : Rank(i) >= 1 /\ Rank(i) <= Cardinality(Pool)
        /\ \A i \in Pool :
              Rank(i) = 1 <=> ~\E j \in Pool \ {i} : Dominates(j, i)
        /\ \A k \in 1..Cardinality(Pool) : \A i \in FromFront(k) :
              Rank(i) = k <=> ~\E j \in FromFront(k) \ {i} : Dominates(j, i)

\* a pool of three ranked into three fronts
C17_Witness ==
    /\ SuperLeadersIdentified
    /\ \E a \in Pool : \E b \in Pool : \E c \in Pool :
          /\ Rank(a) = 1
          /\ Rank(b) = 2
          /\ Rank(c) = 3
          /\ Dominates(a, b)
          /\ Dominates(b, c)

----------------------------------------------------------------------------
(* The leader rule *)

\* the rank-1 subset R1 of a pool
RankOne(pool) == {i \in Elems(pool) : Rank(i) = 1}

\* the members of R1 whose objective is at most the mean over the whole pool
AtMostMean(pool) == {i \in RankOne(pool) : ~AboveMean(i, pool)}

\* the first member of R1 in the order of the pool
FirstRankOne(pool) ==
    pool[CHOOSE k \in 1..Len(pool) :
            /\ Rank(pool[k]) = 1
            /\ \A h \in 1..(k - 1) : Rank(pool[h]) # 1]

\* leaders is what the rule makes of the ranked pool
FollowsRule(pool, leaders) ==
    /\ Len(leaders) = Cardinality(Elems(leaders))
    /\ Elems(leaders) =
          IF 2 * Cardinality(RankOne(pool)) <= Len(pool) THEN RankOne(pool)
          ELSE IF AtMostMean(pool) # {} THEN AtMostMean(pool)
          ELSE {FirstRankOne(pool)}

\* C18: for a ranked non-empty pool with rank-1 subset R1 and mean objective
\* avg over the whole pool: if |R1| <= 0.5*|pool| the leaders are exactly R1;
\* otherwise the leaders are exactly the members of R1 with objective_value
\* <= avg, unless that set is empty, in which case the leader set is the
\* single first-encountered member of R1.  The same rule is applied per
\* society and to global_society.
C18_LeaderRule ==
    /\ LeadersIdentified =>
          \A s \in Societies \ EmptySocieties :
              FollowsRule(Members(civ, s), civ.society_leaders[s + 1])
    /\ (SuperLeadersIdentified /\ civ.global_society # <<>>) =>
          FollowsRule(civ.global_society, civ.super_leaders)

\* a society of two rank-1 members of which the filter keeps one
C18_Witness ==
    /\ LeadersIdentified
    /\ \E s \in Societies :
          LET ms == Members(civ, s)
          IN  /\ Cardinality(RankOne(ms)) = 2
              /\ AtMostMean(ms) # RankOne(ms)
              /\ Len(civ.society_leaders[s + 1]) = 1

----------------------------------------------------------------------------
(* The three regions of the migration operator *)

Between(a, v, b) == a <= v /\ v <= b

\* C19: acquire_information selects its sampling interval from the draw r
\* only: r < 0.25 gives a value in [lb, min(ind_val, leader_val)], or exactly
\* lb when min <= lb; 0.25 <= r < 0.75 gives a value in [min, max] of the two
\* values, or exactly min when max <= min; r >= 0.75 gives a value in
\* [max(ind_val, leader_val), ub], or exactly ub when ub <= max.
C19_RegionByDraw ==
    Returned =>
        LET lo == IF acq.val_ind <= acq.val_leader THEN acq.val_ind ELSE acq.val_leader
            hi == IF acq.val_ind <= acq.val_leader THEN acq.val_leader ELSE acq.val_ind
        IN  /\ 4 * acq.r < RngRes =>
                  IF lo <= acq.lb THEN acq.result = acq.lb
                  ELSE Between(acq.lb, acq.result, lo)
            /\ (RngRes <= 4 * acq.r /\ 4 * acq.r < 3 * RngRes) =>
                  IF hi <= lo THEN acq.result = lo
                  ELSE Between(lo, acq.result, hi)
            /\ 3 * RngRes <= 4 * acq.r =>
                  IF acq.ub <= hi THEN acq.result = acq.ub
                  ELSE Between(hi, acq.result, acq.ub)

\* a call with r >= 0.75 that sampled a value strictly between the larger of
\* the two values and ub, the smaller of them being below lb
C19_Witness ==
    /\ Returned
    /\ 3 * RngRes <= 4 * acq.r
    /\ acq.val_ind < acq.lb
    /\ acq.val_ind < acq.val_leader
    /\ acq.val_leader < acq.result
    /\ acq.result < acq.ub

----------------------------------------------------------------------------
(* Whom a migration follows *)

Distance(i, k) == calculate_distance(civ.population[i + 1], civ.population[k + 1])

\* the first of the candidates at minimal distance from individual i
FirstNearest(i, candidates) ==
    candidates[CHOOSE k \in 1..Len(candidates) :
                  /\ \A h \in 1..Len(candidates) :
                        Distance(i, candidates[k]) <= Distance(i, candidates[h])
                  /\ \A h \in 1..(k - 1) :
                        Distance(i, candidates[h]) > Distance(i, candidates[k])]

\* the coordinates x from the j-th on, each replaced by acquire_information
\* against the same coordinate of y on draws of its own, taken from d in
\* turn; <<>> when d is not exactly the draws that takes
RECURSIVE Acquired(_, _, _, _)
Acquired(x, y, j, d) ==
    IF j > NumVars THEN (IF d = <<>> THEN x ELSE <<>>)
    ELSE IF d = <<>> THEN <<>>
    ELSE
    LET lb == civ.lower_bounds[j]
        ub == civ.upper_bounds[j]
        sampled == SamplesRange(x[j], y[j], lb, ub, d[1])
    IN  IF sampled /\ Len(d) < 2 THEN <<>>
        ELSE Acquired([x EXCEPT ![j] = acquire_information(x[j], y[j], lb, ub, d[1],
                                                           IF sampled THEN d[2] ELSE 0)],
                      y, j + 1, SubSeq(d, IF sampled THEN 3 ELSE 2, Len(d)))

\* individual i has moved towards the first nearest of the candidates, on the
\* draws the step read, and nobody else has moved
MovedTowardsNearest(i, candidates) ==
    /\ civ'.population[i + 1].variables
          = Acquired(civ.population[i + 1].variables,
                     civ.population[FirstNearest(i, candidates) + 1].variables, 1, acq')
    /\ \A k \in Individuals \ {i} : Stays(k)

----------------------------------------------------------------------------
(* Which individual becomes a hub *)

\* the lowest index among the individuals for which Far is maximal
LowestFarthest(Far(_)) ==
    CHOOSE i \in Individuals :
        /\ \A k \in Individuals : Far(k) <= Far(i)
        /\ \A k \in Individuals : k < i => Far(k) < Far(i)

\* C21: the second hub is the lowest-index individual at maximal distance
\* from the first hub, and every hub promoted in the loop is the lowest-index
\* individual at maximal distance from its currently assigned hub, promoted
\* only when that distance is strictly greater than D.
C21_LowestFarthestHub ==
    [][/\ civ.pc = "cluster_population" =>
             LET FromFirst(i) == calculate_distance(civ'.population[i + 1],
                                                    civ'.population[civ'.hubs[1] + 1])
             IN  civ'.hubs[2] = LowestFarthest(FromFirst)
       /\ civ.pc = "cluster_loop" =>
             LET FromHub(i) == HubDistance(civ, i)
                 f == LowestFarthest(FromHub)
                 beyond == 2 * Cardinality(HubPairs(civ)) * FromHub(f)
                              > SumPairs(civ, HubPairs(civ))
             IN  IF beyond
                 THEN /\ civ'.pc = "cluster_loop"
                      /\ civ'.hubs = Append(civ.hubs, f)
                 ELSE /\ civ'.pc = "identify_leaders"
                      /\ civ'.hubs = civ.hubs
      ]_vars

\* a second hub and a promoted hub that each had a later individual as
\* far away as themselves
C21_Witness ==
    /\ civ.pc = "cluster_loop"
    /\ Len(civ.hubs) = 3
    /\ \E i \in Individuals :
          /\ i > civ.hubs[2]
          /\ Distance(i, civ.hubs[1]) = Distance(civ.hubs[2], civ.hubs[1])
    /\ \E i \in Individuals :
          /\ i > civ.hubs[3]
          /\ HubDistance(civ, i) = Min2(Distance(civ.hubs[3], civ.hubs[1]),
                                       Distance(civ.hubs[3], civ.hubs[2]))

----------------------------------------------------------------------------
(* The leaders of one iteration *)

\* identify_super_leaders of the current iteration has run, and
\* cluster_population of the next has not
IterationLed ==
    \/ civ.pc = "move_global_leaders"
    \/ civ.pc = "cluster_population" /\ civ.t >= 1
    \/ civ.pc \in {"evaluate_population", "done"}

\* C22: after every iteration on a non-empty population, global_society is
\* exactly the concatenation, in society order, of the local leader sets
\* computed in that iteration, and super_leaders is a subset of that
\* iteration's global_society; super_leaders never keeps indices left over
\* from an earlier iteration.
C22_LeadersOfThisIteration ==
    (IterationLed /\ civ.population # <<>>) =>
        /\ civ.global_society = Concat(civ.society_leaders)
        /\ Elems(civ.super_leaders) \subseteq Elems(civ.global_society)
        /\ Len(civ.super_leaders) = Cardinality(Elems(civ.super_leaders))
        /\ \A i \in Elems(civ.super_leaders) : Rank(i) = 1

\* the end of a later iteration whose global society lacks an individual that
\* was a leader before it moved: it is not of rank 0 or 1 any more and not a
\* super leader
C22_Witness ==
    /\ civ.t >= 2
    /\ civ.pc = "evaluate_population"
    /\ Len(civ.super_leaders) < Len(civ.global_society)
    /\ \E i \in Individuals : i \notin Elems(civ.global_society) /\ HasMoved(i)

----------------------------------------------------------------------------
(* The society of an individual *)

\* the distance of individual i from the hub of society s
FromHubOf(i, s) == Distance(i, civ.hubs[s + 1])

\* C23: after cluster_population every individual is assigned to a hub
\* nearest to it among all final hubs, and ties go to the lowest society
\* index, even though each reassignment scan compares only the newest hub
\* with the current one.
C23_NearestHubLowestIndex ==
    Clustered =>
        \A i \in Individuals :
            LET s == civ.assignments[i + 1]
            IN  /\ s \in Societies
                /\ \A k \in Societies :
                       /\ k < s => FromHubOf(i, k) > FromHubOf(i, s)
                       /\ k > s => FromHubOf(i, k) >= FromHubOf(i, s)

\* three societies or more, and an individual as near to a hub promoted by
\* the loop as to the hub of its own, earlier society
C23_Witness ==
    /\ Clustered
    /\ Len(civ.hubs) >= 3
    /\ \E i \in Individuals : \E k \in Societies :
           /\ k >= 2
           /\ civ.assignments[i + 1] < k
           /\ FromHubOf(i, k) = FromHubOf(i, civ.assignments[i + 1])

----------------------------------------------------------------------------
(* The hubs of a population that is not all at one point *)

DifferentPoints ==
    \E i, k \in Individuals :
        civ.population[i + 1].variables # civ.population[k + 1].variables

\* C24: if the population contains at least two individuals at different
\* points, then after cluster_population the hub indices are pairwise
\* distinct, every hub individual is assigned to its own society (so no
\* society is empty), and the number of hubs is at most the population size.
C24_DistinctHubsInOwnSociety ==
    (Clustered /\ DifferentPoints) =>
        /\ \A s, r \in Societies : s # r => civ.hubs[s + 1] # civ.hubs[r + 1]
        /\ \A s \in Societies : civ.assignments[civ.hubs[s + 1] + 1] = s
        /\ \A s \in Societies : MemberCount(s) >= 1
        /\ Len(civ.hubs) <= civ.m_pop_size

\* three societies in a population where another individual stands at the
\* point of a hub
C24_Witness ==
    /\ Clustered
    /\ DifferentPoints
    /\ Len(civ.hubs) = 3
    /\ \E s \in Societies : \E i \in Individuals :
           /\ i # civ.hubs[s + 1]
           /\ civ.population[i + 1].variables
                  = civ.population[civ.hubs[s + 1] + 1].variables

----------------------------------------------------------------------------
(* Leader sets and assignments *)

\* identify_leaders of the current iteration has run, and the assignments are
\* still those it read
LeadersOfAssignments ==
    civ.pc \in {"move_society_members", "form_global_society",
                "identify_super_leaders", "move_global_leaders"}

NoIndexTwice(seq) == Len(seq) = Cardinality(Elems(seq))

\* C25: after identify_leaders every index in society_leaders[s] has
\* assignment s, so the leader sets are pairwise disjoint and global_society
\* contains no index twice.
C25_LeadersBelongToTheirSociety ==
    LeadersOfAssignments =>
        /\ Len(civ.society_leaders) = Len(civ.hubs)
        /\ \A s \in Societies : \A i \in Elems(civ.society_leaders[s + 1]) :
               civ.assignments[i + 1] = s
        /\ \A s, r \in Societies :
               s # r => Elems(civ.society_leaders[s + 1])
                            \cap Elems(civ.society_leaders[r + 1]) = {}
        /\ civ.pc \in {"identify_super_leaders", "move_global_leaders"}
               => NoIndexTwice(civ.global_society)

\* a global society that holds leaders of two societies, one of which has two
C25_Witness ==
    /\ civ.pc = "identify_super_leaders"
    /\ \E s, r \in Societies :
           /\ s # r
           /\ Len(civ.society_leaders[s + 1]) >= 2
           /\ Len(civ.society_leaders[r + 1]) >= 1
    /\ Len(civ.global_society) >= 3

----------------------------------------------------------------------------
(* What identify_super_leaders reads *)

\* the stored objective value and violations of individual i are those of its
\* current variables
Fresh(i) ==
    /\ civ.population[i + 1].objective_value
           = ObjectiveFn(civ.problem, civ.population[i + 1])
    /\ civ.population[i + 1].constraint_violations
           = ConstraintFn(civ.problem, civ.population[i + 1])

\* C26: when identify_super_leaders ranks and filters global_society, the
\* stored objective_value and constraint_violations of every global_society
\* member equal the injected functions applied to its current variables,
\* although the population is not re-evaluated after move_society_members.
C26_GlobalSocietyFresh ==
    civ.pc = "identify_super_leaders" =>
        \A i \in Elems(civ.global_society) : Fresh(i)

\* identify_super_leaders is about to rank a global society of two or more
\* while an individual outside it has moved since its evaluation
C26_Witness ==
    /\ civ.pc = "identify_super_leaders"
    /\ Len(civ.global_society) >= 2
    /\ \E i \in Individuals : i \notin Elems(civ.global_society) /\ ~Fresh(i)

----------------------------------------------------------------------------
(* One iteration, individual by individual *)

\* an iteration has just ended
IterationEnded ==
    \/ civ.pc = "cluster_population" /\ civ.t >= 1
    \/ civ.pc = "evaluate_population"

\* the step has run the migration loop on individual i: each coordinate of
\* i, in turn, is what acquire_information returns for it on draws of its
\* own, against the first nearest of the candidates, and nobody else moves
AppliedToEachCoordinate(i, candidates) ==
    /\ civ'.population[i + 1].variables
          = Acquired(civ.population[i + 1].variables,
                     civ.population[FirstNearest(i, candidates) + 1].variables,
                     1, acq'.draws)
    /\ \A k \in Individuals \ {i} : Stays(k)

\* C27: within one iteration on a non-empty population, every individual
\* that is not a super leader has the migration operator applied to each of
\* its coordinates exactly once (non-leaders in move_society_members,
\* non-super local leaders in move_global_leaders, never in both), and every
\* super leader's variables at the end of the iteration equal those at the
\* start.
C27_MovedOnceOrNotAtAll ==
    [][/\ (Migrating(civ) /\ acq'.draws # <<>>) =>
              IF civ.pc = "move_society_members"
              THEN AppliedToEachCoordinate(civ.idx,
                       civ.society_leaders[civ.assignments[civ.idx + 1] + 1])
              ELSE AppliedToEachCoordinate(civ.global_society[civ.idx + 1],
                                           civ.super_leaders)
       /\ (civ.pc # "initialize" /\ (~Migrating(civ) \/ acq'.draws = <<>>)) =>
              \A k \in Individuals : Stays(k)
       /\ (civ.pc = "move_global_leaders" /\ civ'.pc # "move_global_leaders") =>
              \A i \in Individuals :
                  IF i \in SuperLeaders
                  THEN /\ acq'.moves[i + 1] = <<>>
                       /\ civ'.population[i + 1].variables = acq'.start[i + 1]
                  ELSE IF i \in LocalLeaders
                  THEN acq'.moves[i + 1] = <<"move_global_leaders">>
                  ELSE acq'.moves[i + 1] = <<"move_society_members">>
      ]_vars

\* the end of an iteration in which one individual was moved as a member, one
\* as a local leader, and a super leader stands where it started
C27_Witness ==
    /\ IterationEnded
    /\ civ.population # <<>>
    /\ \E i \in Individuals : acq.moves[i + 1] = <<"move_society_members">>
                                 /\ civ.population[i + 1].variables # acq.start[i + 1]
    /\ \E i \in Individuals : acq.moves[i + 1] = <<"move_global_leaders">>
                                 /\ civ.population[i + 1].variables # acq.start[i + 1]
    /\ \E i \in SuperLeaders : acq.moves[i + 1] = <<>>

====
